---- MODULE Spec2Model ----
(***************************************************************************)
(* Model of src/mair/parse/ast.rs: the AST node types, their derived       *)
(* structural equality (#[derive(PartialEq)]) and the constructor helpers  *)
(* Ty::from_path, Ty::from_name and Ty::unit.                              *)
(*                                                                         *)
(* Values are records carrying a "tag" field for enum variants.  A         *)
(* borrowed `&'a str` is a slice (offset, length) of the source buffer and *)
(* is compared by the bytes it views, never by its address.                *)
(***************************************************************************)
EXTENDS Integers, Sequences, FiniteSets, TLC

VARIABLES
    call,   \* the most recent call of a helper of `impl Ty`: [op, arg, ret]
    prev,   \* the call before it
    ncalls, \* the number of calls made
    kind,   \* the node type the registers are instantiated at
    regs    \* three nodes of that type, built by the grammar engine

vars == <<call, prev, ncalls, kind, regs>>

(***************************************************************************)
(* Bounds of the model.                                                    *)
(***************************************************************************)
MaxCalls == 2     \* most calls of the helpers in one run
MaxComps == 1     \* longest component list of a Path given to from_path
MaxMag   == 1     \* largest magnitude of an integer or float literal value
MaxItems == 2     \* longest item list of a ModInner

(***************************************************************************)
(* Borrowed text: slices of the source buffer.                             *)
(***************************************************************************)
SourceBuffer == <<"a", "b", "a">>

Str(off, len) == [off |-> off, len |-> len]

\* the bytes a slice views
Text(s) == SubSeq(SourceBuffer, s.off, s.off + s.len - 1)

\* a mutant of str_eq: compares the fat pointers (address and length)
str_eq_by_address(a, b) == a.off = b.off /\ a.len = b.len

\* PartialEq of &str: same length and the same bytes
str_eq(a, b) ==
    /\ a.len = b.len
    /\ \A k \in 0..(a.len - 1) : SourceBuffer[a.off + k] = SourceBuffer[b.off + k]

\* the names the grammar engine hands out: the empty name and every
\* one-character slice of the buffer ("a" occurs at two addresses)
CompNames == {Str(o, 1) : o \in 1..Len(SourceBuffer)}
NameInputs == {Str(1, 0)} \cup CompNames

(***************************************************************************)
(* Option<T> and Vec<T>, with their PartialEq.                             *)
(***************************************************************************)
None == [some |-> FALSE]
Some(v) == [some |-> TRUE, v |-> v]

Option_eq(eq(_, _), a, b) == a.some = b.some /\ (a.some => eq(a.v, b.v))

\* two vectors compared as sets of elements (what Vec_eq is not)
Vec_eq_as_set(eq(_, _), a, b) ==
    /\ \A i \in 1..Len(a) : \E j \in 1..Len(b) : eq(a[i], b[j])
    /\ \A j \in 1..Len(b) : \E i \in 1..Len(a) : eq(a[i], b[j])

Vec_eq(eq(_, _), a, b) ==
    /\ Len(a) = Len(b)
    /\ \A i \in 1..Len(a) : eq(a[i], b[i])

\* sequences over S of length at most n
SeqsUpTo(S, n) == UNION {[1..m -> S] : m \in 0..n}

(***************************************************************************)
(* Path, PathComp, Ty, TyApply.                                            *)
(***************************************************************************)
Path(is_absolute, comps) == [is_absolute |-> is_absolute, comps |-> comps]
PathComp(body, hint) == [body |-> body, hint |-> hint]
TyApply(name, lifetimes, params) ==
    [name |-> name, lifetimes |-> lifetimes, params |-> params]

Ty_Hole == [tag |-> "Hole"]
Ty_Diverging == [tag |-> "Diverging"]
Ty_Apply(a) == [tag |-> "Apply", apply |-> a]
Ty_Tuple(elems) == [tag |-> "Tuple", elems |-> elems]
Ty_Func(args, ret) == [tag |-> "Func", args |-> args, ret |-> ret]
Ty_Ref(is_mut, lifetime, inner) ==
    [tag |-> "Ref", is_mut |-> is_mut, lifetime |-> lifetime, inner |-> inner]
Ty_Ptr(is_mut, inner) == [tag |-> "Ptr", is_mut |-> is_mut, inner |-> inner]

RECURSIVE Ty_eq(_, _), TyApply_eq(_, _), Path_eq(_, _), PathComp_eq(_, _),
          VecTy_eq(_, _)

VecTy_eq(a, b) == Vec_eq(Ty_eq, a, b)

PathComp_eq(a, b) ==
    /\ str_eq(a.body, b.body)
    /\ Option_eq(VecTy_eq, a.hint, b.hint)

Path_eq(a, b) ==
    /\ a.is_absolute = b.is_absolute
    /\ Vec_eq(PathComp_eq, a.comps, b.comps)

TyApply_eq(a, b) ==
    /\ Path_eq(a.name, b.name)
    /\ Vec_eq(str_eq, a.lifetimes, b.lifetimes)
    /\ Vec_eq(Ty_eq, a.params, b.params)

Ty_eq(a, b) ==
    /\ a.tag = b.tag
    /\ CASE a.tag = "Apply" -> TyApply_eq(a.apply, b.apply)
         [] a.tag = "Tuple" -> Vec_eq(Ty_eq, a.elems, b.elems)
         [] a.tag = "Func"  -> Vec_eq(Ty_eq, a.args, b.args) /\ Ty_eq(a.ret, b.ret)
         [] a.tag = "Ref"   -> /\ a.is_mut = b.is_mut
                               /\ Option_eq(str_eq, a.lifetime, b.lifetime)
                               /\ Ty_eq(a.inner, b.inner)
         [] a.tag = "Ptr"   -> a.is_mut = b.is_mut /\ Ty_eq(a.inner, b.inner)
         [] OTHER           -> TRUE

(***************************************************************************)
(* impl Ty: the constructor helpers.                                       *)
(***************************************************************************)
\* a mutant of from_path: builds every type from a relative path
from_path_relative(path) ==
    Ty_Apply(TyApply(Path(FALSE, path.comps), <<>>, <<>>))

\* a mutant of from_path: repeats the hint of the last component as the
\* type arguments of the application
from_path_hint_as_params(path) ==
    Ty_Apply(TyApply(path, <<>>,
        IF path.comps # <<>> /\ path.comps[Len(path.comps)].hint.some
        THEN path.comps[Len(path.comps)].hint.v ELSE <<>>))

from_path(path) == Ty_Apply(TyApply(path, <<>>, <<>>))

\* a mutant of from_name: gives the component an empty hint list
from_name_empty_hint(name) ==
    from_path(Path(FALSE, <<PathComp(name, Some(<<>>))>>))

from_name(name) == from_path(Path(FALSE, <<PathComp(name, None)>>))

\* a mutant of unit: the one-component tuple of the empty tuple
unit_nested == Ty_Tuple(<<Ty_Tuple(<<>>)>>)

unit == Ty_Tuple(<<>>)

\* #[derive(Clone)] of Ty: a deep copy
Ty_clone(t) == t

(***************************************************************************)
(* Literal.  `fmax` is a floating-point value: NaN, or a sign and a        *)
(* magnitude; `==` on it is the IEEE comparison (NaN differs from          *)
(* everything, itself included; the two zeros are equal).                  *)
(***************************************************************************)
NaN == [nan |-> TRUE, neg |-> FALSE, mag |-> 0]
Float(neg, mag) == [nan |-> FALSE, neg |-> neg, mag |-> mag]

\* a mutant of fmax_eq: equality up to a tolerance of one
fmax_eq_approx(a, b) ==
    /\ ~a.nan /\ ~b.nan
    /\ LET va == IF a.neg THEN 0 - a.mag ELSE a.mag
           vb == IF b.neg THEN 0 - b.mag ELSE b.mag
       IN  va - vb <= 1 /\ vb - va <= 1

fmax_eq(a, b) ==
    /\ ~a.nan /\ ~b.nan
    /\ \/ a.mag = 0 /\ b.mag = 0
       \/ a.neg = b.neg /\ a.mag = b.mag

Literal_CharLike(is_byte, ch) == [tag |-> "CharLike", is_byte |-> is_byte, ch |-> ch]
Literal_StrLike(is_bytestr, s) == [tag |-> "StrLike", is_bytestr |-> is_bytestr, s |-> s]
Literal_IntLike(ty, val) == [tag |-> "IntLike", ty |-> ty, val |-> val]
Literal_FloatLike(ty, val) == [tag |-> "FloatLike", ty |-> ty, val |-> val]

Literal_eq(a, b) ==
    /\ a.tag = b.tag
    /\ CASE a.tag = "CharLike"  -> a.is_byte = b.is_byte /\ a.ch = b.ch
         [] a.tag = "StrLike"   -> a.is_bytestr = b.is_bytestr /\ a.s = b.s
         [] a.tag = "IntLike"   -> Option_eq(Ty_eq, a.ty, b.ty) /\ a.val = b.val
         [] a.tag = "FloatLike" -> Option_eq(Ty_eq, a.ty, b.ty) /\ fmax_eq(a.val, b.val)
         [] OTHER               -> TRUE

(***************************************************************************)
(* Token, Delimiter, Attr.                                                 *)
(***************************************************************************)
Delimiter == {"Paren", "Bracket", "Brace"}

Token_Delimited(delim, tokens) == [tag |-> "Delimited", f0 |-> delim, f1 |-> tokens]
Token_InnerDoc(s) == [tag |-> "InnerDoc", f0 |-> s]
Token_OuterDoc(s) == [tag |-> "OuterDoc", f0 |-> s]
Token_Keyword(kw) == [tag |-> "Keyword", f0 |-> kw]
Token_Ident(s) == [tag |-> "Ident", f0 |-> s]
Token_Lifetime(s) == [tag |-> "Lifetime", f0 |-> s]
Token_Symbol(sym) == [tag |-> "Symbol", f0 |-> sym]
Token_Literal(lit) == [tag |-> "Literal", f0 |-> lit]

RECURSIVE Token_eq(_, _)
Token_eq(a, b) ==
    /\ a.tag = b.tag
    /\ CASE a.tag = "Delimited" -> a.f0 = b.f0 /\ Vec_eq(Token_eq, a.f1, b.f1)
         [] a.tag \in {"InnerDoc", "OuterDoc", "Ident", "Lifetime"} -> str_eq(a.f0, b.f0)
         [] a.tag \in {"Keyword", "Symbol"} -> a.f0 = b.f0
         [] a.tag = "Literal" -> Literal_eq(a.f0, b.f0)
         [] OTHER -> TRUE

\* FuncBody and Expr are both Vec<Token>
VecToken_eq(a, b) == Vec_eq(Token_eq, a, b)

Attr_Flag(s) == [tag |-> "Flag", f0 |-> s]
Attr_Value(key, value) == [tag |-> "Value", key |-> key, value |-> value]
Attr_Sub(s, attrs) == [tag |-> "Sub", f0 |-> s, f1 |-> attrs]

RECURSIVE Attr_eq(_, _)
Attr_eq(a, b) ==
    /\ a.tag = b.tag
    /\ CASE a.tag = "Flag"  -> str_eq(a.f0, b.f0)
         [] a.tag = "Value" -> str_eq(a.key, b.key) /\ Literal_eq(a.value, b.value)
         [] a.tag = "Sub"   -> str_eq(a.f0, b.f0) /\ Vec_eq(Attr_eq, a.f1, b.f1)
         [] OTHER -> TRUE

(***************************************************************************)
(* Template, FuncSig and the parts of items.                               *)
(***************************************************************************)
TraitBound(ty, traits) == [f0 |-> ty, f1 |-> traits]
TraitBound_eq(a, b) == Ty_eq(a.f0, b.f0) /\ Vec_eq(TyApply_eq, a.f1, b.f1)

Template(lifetimes, tys, trait_bounds) ==
    [lifetimes |-> lifetimes, tys |-> tys, trait_bounds |-> trait_bounds]
Template_eq(a, b) ==
    /\ Vec_eq(str_eq, a.lifetimes, b.lifetimes)
    /\ Vec_eq(str_eq, a.tys, b.tys)
    /\ Vec_eq(TraitBound_eq, a.trait_bounds, b.trait_bounds)

SelfArg_Static == [tag |-> "Static"]
SelfArg_Consume(is_mut) == [tag |-> "Consume", is_mut |-> is_mut]
SelfArg_Ref(is_mut) == [tag |-> "Ref", is_mut |-> is_mut]
SelfArg_eq(a, b) ==
    /\ a.tag = b.tag
    /\ a.tag \in {"Consume", "Ref"} => a.is_mut = b.is_mut

FuncArg(name, ty) == [name |-> name, ty |-> ty]
FuncArg_eq(a, b) == str_eq(a.name, b.name) /\ Ty_eq(a.ty, b.ty)

FuncSig(name, templ, self_arg, args) ==
    [name |-> name, templ |-> templ, self_arg |-> self_arg, args |-> args]
FuncSig_eq(a, b) ==
    /\ str_eq(a.name, b.name)
    /\ Template_eq(a.templ, b.templ)
    /\ SelfArg_eq(a.self_arg, b.self_arg)
    /\ Vec_eq(FuncArg_eq, a.args, b.args)

UseName(name, alias) == [name |-> name, alias |-> alias]
UseName_eq(a, b) == str_eq(a.name, b.name) /\ Option_eq(str_eq, a.alias, b.alias)

ExternFuncDecl(sig, is_pub, attrs) == [sig |-> sig, is_pub |-> is_pub, attrs |-> attrs]
ExternFuncDecl_eq(a, b) ==
    /\ FuncSig_eq(a.sig, b.sig)
    /\ a.is_pub = b.is_pub
    /\ Vec_eq(Attr_eq, a.attrs, b.attrs)

StructTupleElem(is_pub, attrs, ty) == [is_pub |-> is_pub, attrs |-> attrs, ty |-> ty]
StructTupleElem_eq(a, b) ==
    /\ a.is_pub = b.is_pub
    /\ Vec_eq(Attr_eq, a.attrs, b.attrs)
    /\ Ty_eq(a.ty, b.ty)

StructField(name, is_pub, attrs, ty) ==
    [name |-> name, is_pub |-> is_pub, attrs |-> attrs, ty |-> ty]
StructField_eq(a, b) ==
    /\ str_eq(a.name, b.name)
    /\ a.is_pub = b.is_pub
    /\ Vec_eq(Attr_eq, a.attrs, b.attrs)
    /\ Ty_eq(a.ty, b.ty)

EnumVar_Unit(name, attrs) == [tag |-> "Unit", name |-> name, attrs |-> attrs]
EnumVar_Tuple(name, attrs, elems) ==
    [tag |-> "Tuple", name |-> name, attrs |-> attrs, elems |-> elems]
EnumVar_Struct(name, attrs, fields) ==
    [tag |-> "Struct", name |-> name, attrs |-> attrs, fields |-> fields]
EnumVar_eq(a, b) ==
    /\ a.tag = b.tag
    /\ str_eq(a.name, b.name)
    /\ Vec_eq(Attr_eq, a.attrs, b.attrs)
    /\ CASE a.tag = "Tuple"  -> Vec_eq(StructTupleElem_eq, a.elems, b.elems)
         [] a.tag = "Struct" -> Vec_eq(StructField_eq, a.fields, b.fields)
         [] OTHER -> TRUE

TraitItem_Type(name, attrs, trait_bounds, default) ==
    [tag |-> "Type", name |-> name, attrs |-> attrs,
     trait_bounds |-> trait_bounds, default |-> default]
TraitItem_Func(sig, attrs, default) ==
    [tag |-> "Func", sig |-> sig, attrs |-> attrs, default |-> default]
TraitItem_eq(a, b) ==
    /\ a.tag = b.tag
    /\ Vec_eq(Attr_eq, a.attrs, b.attrs)
    /\ CASE a.tag = "Type" -> /\ str_eq(a.name, b.name)
                              /\ Vec_eq(TyApply_eq, a.trait_bounds, b.trait_bounds)
                              /\ Option_eq(Ty_eq, a.default, b.default)
         [] a.tag = "Func" -> /\ FuncSig_eq(a.sig, b.sig)
                              /\ Option_eq(VecToken_eq, a.default, b.default)
         [] OTHER -> TRUE

ImplItem_Type(name, attrs, val) ==
    [tag |-> "Type", name |-> name, attrs |-> attrs, val |-> val]
ImplItem_Func(sig, attrs, body) ==
    [tag |-> "Func", sig |-> sig, attrs |-> attrs, body |-> body]
ImplItem_eq(a, b) ==
    /\ a.tag = b.tag
    /\ Vec_eq(Attr_eq, a.attrs, b.attrs)
    /\ CASE a.tag = "Type" -> str_eq(a.name, b.name) /\ Ty_eq(a.val, b.val)
         [] a.tag = "Func" -> FuncSig_eq(a.sig, b.sig) /\ VecToken_eq(a.body, b.body)
         [] OTHER -> TRUE

(***************************************************************************)
(* ItemKind, Item, ModInner.                                               *)
(***************************************************************************)
ItemKind_ExternCrate(s) == [tag |-> "ExternCrate", f0 |-> s]
ItemKind_UseAll(path) == [tag |-> "UseAll", f0 |-> path]
ItemKind_UseSome(path, names) == [tag |-> "UseSome", path |-> path, names |-> names]
ItemKind_Mod(name, items) == [tag |-> "Mod", name |-> name, items |-> items]
ItemKind_Func(sig, body) == [tag |-> "Func", sig |-> sig, body |-> body]
ItemKind_Extern(abi, decls) == [tag |-> "Extern", abi |-> abi, decls |-> decls]
ItemKind_Type(alias, templ, origin) ==
    [tag |-> "Type", alias |-> alias, templ |-> templ, origin |-> origin]
ItemKind_StructUnit(name, templ) == [tag |-> "StructUnit", name |-> name, templ |-> templ]
ItemKind_StructTuple(name, templ, elems) ==
    [tag |-> "StructTuple", name |-> name, templ |-> templ, elems |-> elems]
ItemKind_StructNormal(name, templ, fields) ==
    [tag |-> "StructNormal", name |-> name, templ |-> templ, fields |-> fields]
ItemKind_Enum(name, templ, variants) ==
    [tag |-> "Enum", name |-> name, templ |-> templ, vars |-> variants]
ItemKind_Const(name, ty, val) == [tag |-> "Const", name |-> name, ty |-> ty, val |-> val]
ItemKind_Static(name, ty, val) == [tag |-> "Static", name |-> name, ty |-> ty, val |-> val]
ItemKind_Trait(name, templ, items) ==
    [tag |-> "Trait", name |-> name, templ |-> templ, items |-> items]
ItemKind_ImplType(templ, ty_for, items) ==
    [tag |-> "ImplType", templ |-> templ, ty_for |-> ty_for, items |-> items]

\* a mutant of ItemKind_ImplTrait: the payload of an inherent impl (no
\* trait name) under the tag of a trait impl
ItemKind_ImplTrait_no_trait(templ, tr_name, ty_for, items) ==
    [tag |-> "ImplTrait", templ |-> templ, ty_for |-> ty_for, items |-> items]

ItemKind_ImplTrait(templ, tr_name, ty_for, items) ==
    [tag |-> "ImplTrait", templ |-> templ, tr_name |-> tr_name,
     ty_for |-> ty_for, items |-> items]

\* the variants of ItemKind and the fields each one carries
ItemKindTags ==
    {"ExternCrate", "UseAll", "UseSome", "Mod", "Func", "Extern", "Type",
     "StructUnit", "StructTuple", "StructNormal", "Enum", "Const", "Static",
     "Trait", "ImplType", "ImplTrait"}

ItemKindFields(tag) ==
    CASE tag \in {"ExternCrate", "UseAll"} -> {"f0"}
      [] tag = "UseSome"      -> {"path", "names"}
      [] tag = "Mod"          -> {"name", "items"}
      [] tag = "Func"         -> {"sig", "body"}
      [] tag = "Extern"       -> {"abi", "decls"}
      [] tag = "Type"         -> {"alias", "templ", "origin"}
      [] tag = "StructUnit"   -> {"name", "templ"}
      [] tag = "StructTuple"  -> {"name", "templ", "elems"}
      [] tag = "StructNormal" -> {"name", "templ", "fields"}
      [] tag = "Enum"         -> {"name", "templ", "vars"}
      [] tag \in {"Const", "Static"} -> {"name", "ty", "val"}
      [] tag = "Trait"        -> {"name", "templ", "items"}
      [] tag = "ImplType"     -> {"templ", "ty_for", "items"}
      [] tag = "ImplTrait"    -> {"templ", "tr_name", "ty_for", "items"}
      [] OTHER                -> {}

Item(is_pub, attrs, detail) == [is_pub |-> is_pub, attrs |-> attrs, detail |-> detail]
ModInner(attrs, items) == [attrs |-> attrs, items |-> items]

RECURSIVE Item_eq(_, _), ItemKind_eq(_, _), VecItem_eq(_, _)

VecItem_eq(a, b) == Vec_eq(Item_eq, a, b)

ItemKind_eq(a, b) ==
    /\ a.tag = b.tag
    /\ CASE a.tag = "ExternCrate" -> str_eq(a.f0, b.f0)
         [] a.tag = "UseAll" -> Path_eq(a.f0, b.f0)
         [] a.tag = "UseSome" ->
                Path_eq(a.path, b.path) /\ Vec_eq(UseName_eq, a.names, b.names)
         [] a.tag = "Mod" ->
                str_eq(a.name, b.name) /\ Option_eq(VecItem_eq, a.items, b.items)
         [] a.tag = "Func" ->
                FuncSig_eq(a.sig, b.sig) /\ VecToken_eq(a.body, b.body)
         [] a.tag = "Extern" ->
                /\ Option_eq(str_eq, a.abi, b.abi)
                /\ Vec_eq(ExternFuncDecl_eq, a.decls, b.decls)
         [] a.tag = "Type" ->
                /\ str_eq(a.alias, b.alias)
                /\ Template_eq(a.templ, b.templ)
                /\ Ty_eq(a.origin, b.origin)
         [] a.tag = "StructUnit" ->
                str_eq(a.name, b.name) /\ Template_eq(a.templ, b.templ)
         [] a.tag = "StructTuple" ->
                /\ str_eq(a.name, b.name)
                /\ Template_eq(a.templ, b.templ)
                /\ Vec_eq(StructTupleElem_eq, a.elems, b.elems)
         [] a.tag = "StructNormal" ->
                /\ str_eq(a.name, b.name)
                /\ Template_eq(a.templ, b.templ)
                /\ Vec_eq(StructField_eq, a.fields, b.fields)
         [] a.tag = "Enum" ->
                /\ str_eq(a.name, b.name)
                /\ Template_eq(a.templ, b.templ)
                /\ Vec_eq(EnumVar_eq, a.vars, b.vars)
         [] a.tag \in {"Const", "Static"} ->
                /\ str_eq(a.name, b.name)
                /\ Ty_eq(a.ty, b.ty)
                /\ VecToken_eq(a.val, b.val)
         [] a.tag = "Trait" ->
                /\ str_eq(a.name, b.name)
                /\ Template_eq(a.templ, b.templ)
                /\ Vec_eq(TraitItem_eq, a.items, b.items)
         [] a.tag = "ImplType" ->
                /\ Template_eq(a.templ, b.templ)
                /\ Ty_eq(a.ty_for, b.ty_for)
                /\ Vec_eq(ImplItem_eq, a.items, b.items)
         [] a.tag = "ImplTrait" ->
                /\ Template_eq(a.templ, b.templ)
                /\ TyApply_eq(a.tr_name, b.tr_name)
                /\ Ty_eq(a.ty_for, b.ty_for)
                /\ Vec_eq(ImplItem_eq, a.items, b.items)
         [] OTHER -> TRUE

Item_eq(a, b) ==
    /\ a.is_pub = b.is_pub
    /\ Vec_eq(Attr_eq, a.attrs, b.attrs)
    /\ ItemKind_eq(a.detail, b.detail)

\* a mutant of ModInner_eq: the item lists compared as sets
ModInner_eq_unordered(a, b) ==
    /\ Vec_eq(Attr_eq, a.attrs, b.attrs)
    /\ Vec_eq_as_set(Item_eq, a.items, b.items)

ModInner_eq(a, b) ==
    /\ Vec_eq(Attr_eq, a.attrs, b.attrs)
    /\ Vec_eq(Item_eq, a.items, b.items)

(***************************************************************************)
(* The calls of the helpers, as the grammar engine makes them.             *)
(***************************************************************************)
NoCall == [op |-> "none"]

HintInputs == {None, Some(<<>>), Some(<<Ty_Hole>>)}
PathCompInputs == {PathComp(b, h) : b \in CompNames, h \in HintInputs}
PathInputs ==
    {Path(abs, comps) : abs \in BOOLEAN, comps \in SeqsUpTo(PathCompInputs, MaxComps)}

Record(c) ==
    /\ ncalls < MaxCalls
    /\ call' = c
    /\ prev' = call
    /\ ncalls' = ncalls + 1
    /\ UNCHANGED <<kind, regs>>

CallFromPath ==
    /\ kind = "Call"
    /\ \E p \in PathInputs : Record([op |-> "from_path", arg |-> p, ret |-> from_path(p)])

CallFromName ==
    /\ kind = "Call"
    /\ \E n \in NameInputs : Record([op |-> "from_name", arg |-> n, ret |-> from_name(n)])

CallUnit ==
    /\ kind = "Call"
    /\ Record([op |-> "unit", arg |-> <<>>, ret |-> unit])

\* a mutant of CallClone: the clone takes the value out of the node it
\* copies and leaves the placeholder behind
CallClone_taking ==
    /\ kind = "Call"
    /\ call # NoCall
    /\ ncalls < MaxCalls
    /\ call' = [op |-> "clone", arg |-> call.ret, ret |-> Ty_clone(call.ret)]
    /\ prev' = [call EXCEPT !.ret = Ty_Hole]
    /\ ncalls' = ncalls + 1
    /\ UNCHANGED <<kind, regs>>

CallClone ==
    /\ kind = "Call"
    /\ call # NoCall
    /\ Record([op |-> "clone", arg |-> call.ret, ret |-> Ty_clone(call.ret)])

Empty == [tag |-> "Empty"]
Regs == {"x", "y", "z"}

InitTy ==
    /\ call = NoCall
    /\ prev = NoCall
    /\ ncalls = 0
    /\ kind = "Call"
    /\ regs = [r \in Regs |-> Empty]

NextTy == CallFromPath \/ CallFromName \/ CallUnit \/ CallClone

SpecTy == InitTy /\ [][NextTy]_vars

(***************************************************************************)
(* The nodes the grammar engine builds.  Three registers hold nodes of one *)
(* type (`==` only relates values of one type); each is built once.        *)
(***************************************************************************)
NameA  == Str(1, 1)     \* "a"
NameB  == Str(2, 1)     \* "b"
NameA2 == Str(3, 1)     \* "a" again, at another address

Rejected == [tag |-> "Rejected"]

FloatInputs == {NaN} \cup {Float(n, m) : n \in BOOLEAN, m \in 0..MaxMag}
SuffixInputs == {None, Some(from_name(NameA))}

\* a mutant of float_literal: no guard, every value becomes a node
float_literal_unchecked(ty, val) == Literal_FloatLike(ty, val)

\* the literal-construction helper for float literals: NaN is rejected
\* before a node exists
float_literal(ty, val) ==
    IF val.nan THEN Rejected ELSE Literal_FloatLike(ty, val)

OtherLiteralInputs ==
    {Literal_CharLike(b, "c") : b \in BOOLEAN}
    \cup {Literal_StrLike(b, "s") : b \in BOOLEAN}
    \cup {Literal_IntLike(t, v) : t \in SuffixInputs, v \in 0..MaxMag}

\* the float literals without a suffix that the helper lets through
BareFloats == {float_literal(None, v) : v \in FloatInputs} \ {Rejected}

TokenInputs ==
    {Token_Literal(l) : l \in BareFloats}
    \cup {Token_Ident(NameA), Token_Ident(NameA2), Token_Lifetime(NameA),
          Token_InnerDoc(NameA), Token_OuterDoc(NameA),
          Token_Keyword("Fn"), Token_Symbol(">>")}
    \cup {Token_Delimited(d, <<>>) : d \in Delimiter}
    \cup {Token_Delimited("Paren", <<Token_Literal(l)>>) : l \in BareFloats}

ValueAttrs ==
    {Attr_Value(NameA, l) : l \in BareFloats \cup {Literal_StrLike(FALSE, "s")}}

AttrInputs ==
    {Attr_Flag(NameA), Attr_Flag(NameA2), Attr_Flag(NameB), Attr_Sub(NameA, <<>>)}
    \cup ValueAttrs
    \cup {Attr_Sub(NameA, <<a>>) : a \in ValueAttrs}

TyInputs ==
    {Ty_Hole, Ty_Diverging, unit, Ty_Tuple(<<unit>>),
     from_path(Path(TRUE, <<>>)),
     Ty_Ref(FALSE, None, Ty_Hole), Ty_Ref(TRUE, None, Ty_Hole),
     Ty_Ref(FALSE, Some(NameA), Ty_Hole), Ty_Ref(FALSE, Some(NameA2), Ty_Hole),
     Ty_Ptr(FALSE, Ty_Hole), Ty_Ptr(TRUE, Ty_Hole),
     Ty_Func(<<>>, unit), Ty_Func(<<Ty_Hole>>, unit)}
    \cup {from_name(n) : n \in NameInputs}

EmptyTemplate == Template(<<>>, <<>>, <<>>)
BoundedTemplate ==
    Template(<<NameA>>, <<NameB>>,
             <<TraitBound(from_name(NameB), <<TyApply(Path(FALSE, <<>>), <<>>, <<>>)>>)>>)
StaticSig == FuncSig(NameA, EmptyTemplate, SelfArg_Static, <<>>)
SigInputs ==
    {StaticSig,
     FuncSig(NameA, BoundedTemplate, SelfArg_Ref(TRUE), <<FuncArg(NameB, from_name(NameA))>>),
     FuncSig(NameA, EmptyTemplate, SelfArg_Consume(FALSE), <<>>)}
PathA == Path(FALSE, <<PathComp(NameA, None)>>)
TraitA == TyApply(PathA, <<>>, <<>>)
FloatExprs == {<<Token_Literal(l)>> : l \in BareFloats}
ZeroFloats == {float_literal(None, Float(n, 0)) : n \in BOOLEAN}
UnitStruct == Item(FALSE, <<>>, ItemKind_StructUnit(NameA, EmptyTemplate))

ItemKindInputs ==
    {ItemKind_ExternCrate(NameA), ItemKind_ExternCrate(NameA2),
     ItemKind_UseAll(PathA),
     ItemKind_UseSome(PathA, <<UseName(NameA, None), UseName(NameB, Some(NameA))>>),
     ItemKind_Mod(NameA, None), ItemKind_Mod(NameA, Some(<<>>)),
     ItemKind_Mod(NameA, Some(<<UnitStruct>>)),
     ItemKind_Extern(None, <<>>),
     ItemKind_Extern(Some(NameA), <<ExternFuncDecl(StaticSig, FALSE, <<>>)>>),
     ItemKind_Static(NameA, from_name(NameA), <<Token_Literal(Literal_IntLike(None, 0))>>),
     ItemKind_Type(NameA, EmptyTemplate, unit),
     ItemKind_StructUnit(NameA, EmptyTemplate),
     ItemKind_StructTuple(NameA, EmptyTemplate,
        <<StructTupleElem(FALSE, <<>>, from_name(NameA))>>),
     ItemKind_StructNormal(NameA, EmptyTemplate,
        <<StructField(NameB, TRUE, <<>>, from_name(NameA))>>),
     ItemKind_Enum(NameA, EmptyTemplate,
        <<EnumVar_Unit(NameA, <<>>),
          EnumVar_Tuple(NameB, <<>>, <<StructTupleElem(FALSE, <<>>, from_name(NameA))>>),
          EnumVar_Struct(NameA2, <<>>, <<StructField(NameA, FALSE, <<>>, unit)>>)>>),
     ItemKind_Trait(NameA, EmptyTemplate,
        <<TraitItem_Type(NameA, <<>>, <<TraitA>>, Some(unit)),
          TraitItem_Func(StaticSig, <<>>, None)>>),
     ItemKind_ImplType(EmptyTemplate, from_name(NameA),
        <<ImplItem_Type(NameA, <<>>, unit)>>),
     ItemKind_ImplTrait(EmptyTemplate, TraitA, from_name(NameA), <<>>)}
    \cup {ItemKind_Func(g, <<>>) : g \in SigInputs}
    \cup {ItemKind_Const(NameA, from_name(NameA), e) : e \in FloatExprs}

ItemInputs ==
    {Item(FALSE, <<>>, d) : d \in ItemKindInputs}
    \cup {Item(TRUE, <<>>, UnitStruct.detail)}
    \cup {Item(FALSE, <<Attr_Value(NameA, l)>>, UnitStruct.detail) : l \in ZeroFloats}

\* the items a module is built of: two constants whose values are the two
\* zeros, and a unit struct
ModItemInputs ==
    {Item(FALSE, <<>>, ItemKind_Const(NameA, unit, <<Token_Literal(l)>>)) : l \in ZeroFloats}
    \cup {UnitStruct}

ModInnerInputs == {ModInner(<<>>, is) : is \in SeqsUpTo(ModItemInputs, MaxItems)}

Kinds == {"Literal", "Token", "Attr", "Ty", "Item", "ModInner"}

Put(r, node) ==
    /\ regs[r] = Empty
    /\ regs' = [regs EXCEPT ![r] = node]
    /\ UNCHANGED <<call, prev, ncalls, kind>>

NewFloatLiteral ==
    /\ kind = "Literal"
    /\ \E r \in Regs, t \in SuffixInputs, v \in FloatInputs :
          /\ float_literal(t, v) # Rejected
          /\ Put(r, float_literal(t, v))

NewLiteral ==
    /\ kind = "Literal"
    /\ \E r \in Regs, l \in OtherLiteralInputs : Put(r, l)

NewToken ==
    /\ kind = "Token"
    /\ \E r \in Regs, t \in TokenInputs : Put(r, t)

NewAttr ==
    /\ kind = "Attr"
    /\ \E r \in Regs, a \in AttrInputs : Put(r, a)

NewTy ==
    /\ kind = "Ty"
    /\ \E r \in Regs, t \in TyInputs : Put(r, t)

NewItem ==
    /\ kind = "Item"
    /\ \E r \in Regs, i \in ItemInputs : Put(r, i)

NewModInner ==
    /\ kind = "ModInner"
    /\ \E r \in Regs, m \in ModInnerInputs : Put(r, m)

InitAst ==
    /\ call = NoCall
    /\ prev = NoCall
    /\ ncalls = 0
    /\ kind \in Kinds
    /\ regs = [r \in Regs |-> Empty]

NextAst ==
    \/ NewFloatLiteral
    \/ NewLiteral
    \/ NewToken
    \/ NewAttr
    \/ NewTy
    \/ NewItem
    \/ NewModInner

SpecAst == InitAst /\ [][NextAst]_vars

\* `==` at the type the registers hold
Node_eq(a, b) ==
    CASE kind = "Literal"  -> Literal_eq(a, b)
      [] kind = "Token"    -> Token_eq(a, b)
      [] kind = "Attr"     -> Attr_eq(a, b)
      [] kind = "Ty"       -> Ty_eq(a, b)
      [] kind = "Item"     -> Item_eq(a, b)
      [] kind = "ModInner" -> ModInner_eq(a, b)
      [] OTHER             -> FALSE

Nodes == {regs[r] : r \in Regs} \ {Empty}

(***************************************************************************)
(* Properties of the constructor helpers (checked under SpecTy).           *)
(***************************************************************************)
Calls == {call, prev} \ {NoCall}

\* a path with every borrowed name replaced by the text it views (the
\* hints of the paths given to from_path hold no names)
PathContent(p) ==
    [is_absolute |-> p.is_absolute,
     comps |-> [i \in 1..Len(p.comps) |->
                  [body |-> Text(p.comps[i].body), hint |-> p.comps[i].hint]]]

\* C1: the result of Ty::from_path(p) is the Apply variant, carries p
\* unchanged as its name, has no lifetimes and no type arguments, and so
\* equals Ty::Apply(TyApply{ name: p, lifetimes: [], params: [] }).
C1_FromPathIsApply ==
    \A c \in Calls : c.op = "from_path" =>
        /\ c.ret.tag = "Apply"
        /\ c.ret.apply.name = c.arg
        /\ c.ret.apply.lifetimes = <<>>
        /\ c.ret.apply.params = <<>>
        /\ Ty_eq(c.ret, Ty_Apply(TyApply(c.arg, <<>>, <<>>)))

C1_Witness ==
    /\ call.op = "from_path"
    /\ call.arg.is_absolute
    /\ call.arg.comps # <<>>
    /\ call.arg.comps[1].hint = Some(<<Ty_Hole>>)
    /\ prev.op = "from_path"
    /\ prev.arg.comps = <<>>

\* C2: Ty::from_name(n) equals the type built from the relative path with
\* the single component { body: n, hint: None }.
C2_FromNameIsSingleComponentPath ==
    \A c \in Calls : c.op = "from_name" =>
        /\ Ty_eq(c.ret, from_path(Path(FALSE, <<PathComp(c.arg, None)>>)))
        /\ c.ret.tag = "Apply"
        /\ ~c.ret.apply.name.is_absolute
        /\ Len(c.ret.apply.name.comps) = 1
        /\ c.ret.apply.name.comps[1].body = c.arg
        /\ c.ret.apply.name.comps[1].hint = None

C2_Witness ==
    /\ call.op = "from_name" /\ call.arg.len = 0
    /\ prev.op = "from_name" /\ prev.arg.len = 1

\* C3: Ty::unit() equals the tuple type of no components and differs from
\* the one-component tuple of the unit type.
C3_UnitIsEmptyTuple ==
    \A c \in Calls : c.op = "unit" =>
        /\ Ty_eq(c.ret, Ty_Tuple(<<>>))
        /\ ~Ty_eq(c.ret, Ty_Tuple(<<c.ret>>))
        /\ ~Ty_eq(Ty_Tuple(<<c.ret>>), c.ret)

C3_Witness == call.op = "unit"

C7_EqualInputsEqualResults ==
    \A c1 \in Calls, c2 \in Calls :
        /\ (c1.op = "from_name" /\ c2.op = "from_name" /\ Text(c1.arg) = Text(c2.arg))
              => Ty_eq(c1.ret, c2.ret)
        /\ (c1.op = "from_path" /\ c2.op = "from_path"
              /\ PathContent(c1.arg) = PathContent(c2.arg))
              => Ty_eq(c1.ret, c2.ret)
        /\ (c1.op = "unit" /\ c2.op = "unit") => Ty_eq(c1.ret, c2.ret)

C7_Witness ==
    /\ call.op = "from_name" /\ prev.op = "from_name"
    /\ call.arg.off # prev.arg.off
    /\ Text(call.arg) = <<"a">> /\ Text(prev.arg) = <<"a">>

\* C10: the helpers are injective under structural equality: from_name
\* results are equal exactly when the names have equal text, from_path
\* results exactly when the paths are equal, and neither helper yields
\* the unit type, Hole or Diverging.
C10_HelpersInjective ==
    \A c1 \in Calls, c2 \in Calls :
        /\ (c1.op = "from_name" /\ c2.op = "from_name")
              => (Ty_eq(c1.ret, c2.ret) <=> Text(c1.arg) = Text(c2.arg))
        /\ (c1.op = "from_path" /\ c2.op = "from_path")
              => (Ty_eq(c1.ret, c2.ret) <=> Path_eq(c1.arg, c2.arg))
        /\ c1.op \in {"from_name", "from_path"} =>
              /\ ~Ty_eq(c1.ret, unit) /\ ~Ty_eq(unit, c1.ret)
              /\ ~Ty_eq(c1.ret, Ty_Hole)
              /\ ~Ty_eq(c1.ret, Ty_Diverging)
              /\ c2.op = "unit" => ~Ty_eq(c1.ret, c2.ret)

C10_Witness ==
    /\ call.op = "from_path" /\ prev.op = "from_path"
    /\ call.arg.is_absolute # prev.arg.is_absolute
    /\ call.arg.comps = prev.arg.comps
    /\ ~Ty_eq(call.ret, prev.ret)

(***************************************************************************)
(* Properties of the nodes (checked under SpecAst).                        *)
(***************************************************************************)
AnyOf(P(_), s) == \E i \in 1..Len(s) : P(s[i])

Literal_has_nan(l) == l.tag = "FloatLike" /\ l.val.nan

RECURSIVE Token_has_nan(_)
Token_has_nan(t) ==
    CASE t.tag = "Literal"   -> Literal_has_nan(t.f0)
      [] t.tag = "Delimited" -> AnyOf(Token_has_nan, t.f1)
      [] OTHER               -> FALSE

RECURSIVE Attr_has_nan(_)
Attr_has_nan(a) ==
    CASE a.tag = "Value" -> Literal_has_nan(a.value)
      [] a.tag = "Sub"   -> AnyOf(Attr_has_nan, a.f1)
      [] OTHER           -> FALSE

Attrs_have_nan(n) == AnyOf(Attr_has_nan, n.attrs)

EnumVar_has_nan(v) ==
    \/ Attrs_have_nan(v)
    \/ v.tag = "Tuple" /\ AnyOf(Attrs_have_nan, v.elems)
    \/ v.tag = "Struct" /\ AnyOf(Attrs_have_nan, v.fields)

TraitItem_has_nan(i) ==
    \/ Attrs_have_nan(i)
    \/ i.tag = "Func" /\ i.default.some /\ AnyOf(Token_has_nan, i.default.v)

ImplItem_has_nan(i) ==
    \/ Attrs_have_nan(i)
    \/ i.tag = "Func" /\ AnyOf(Token_has_nan, i.body)

RECURSIVE Item_has_nan(_)
Item_has_nan(i) ==
    \/ Attrs_have_nan(i)
    \/ LET d == i.detail IN
       CASE d.tag = "Mod"          -> d.items.some /\ AnyOf(Item_has_nan, d.items.v)
         [] d.tag = "Func"         -> AnyOf(Token_has_nan, d.body)
         [] d.tag = "Extern"       -> AnyOf(Attrs_have_nan, d.decls)
         [] d.tag = "StructTuple"  -> AnyOf(Attrs_have_nan, d.elems)
         [] d.tag = "StructNormal" -> AnyOf(Attrs_have_nan, d.fields)
         [] d.tag = "Enum"         -> AnyOf(EnumVar_has_nan, d.vars)
         [] d.tag \in {"Const", "Static"} -> AnyOf(Token_has_nan, d.val)
         [] d.tag = "Trait"        -> AnyOf(TraitItem_has_nan, d.items)
         [] d.tag \in {"ImplType", "ImplTrait"} -> AnyOf(ImplItem_has_nan, d.items)
         [] OTHER                  -> FALSE

Node_has_nan(n) ==
    CASE kind = "Literal"  -> Literal_has_nan(n)
      [] kind = "Token"    -> Token_has_nan(n)
      [] kind = "Attr"     -> Attr_has_nan(n)
      [] kind = "Item"     -> Item_has_nan(n)
      [] kind = "ModInner" -> Attrs_have_nan(n) \/ AnyOf(Item_has_nan, n.items)
      [] OTHER             -> FALSE

\* C4: over nodes in which no float literal is NaN, `==` is reflexive,
\* symmetric and transitive, at Literal and at every type that can hold a
\* Literal (Token, Attr, Item, ModInner), and at Ty.
C4_EqIsEquivalence ==
    LET NaNFree == {n \in Nodes : ~Node_has_nan(n)} IN
    \A x \in NaNFree :
        /\ Node_eq(x, x)
        /\ \A y \in NaNFree :
              Node_eq(x, y) =>
                  /\ Node_eq(y, x)
                  /\ \A z \in NaNFree : Node_eq(y, z) => Node_eq(x, z)

C4_Witness ==
    /\ kind = "Item"
    /\ regs["x"] # Empty /\ regs["y"] # Empty /\ regs["z"] # Empty
    /\ regs["x"].detail.tag = "Const"
    /\ regs["x"] # regs["y"] /\ regs["y"] # regs["z"] /\ regs["x"] # regs["z"]
    /\ Item_eq(regs["x"], regs["y"])
    /\ ~Item_eq(regs["y"], regs["z"])
    /\ ~Node_has_nan(regs["x"])

\* C5: a float literal is never built from NaN: the literal-construction
\* helper rejects it, so no node holds a FloatLike whose value is NaN.
C5_NoNaNLiteral == \A n \in Nodes : ~Node_has_nan(n)

C5_Witness ==
    /\ kind = "Literal"
    /\ regs["x"].tag = "FloatLike"
    /\ ~regs["x"].val.nan
    /\ regs["y"].tag = "FloatLike"
    /\ regs["y"].ty # None

\* C8: the item list of a module is a sequence: two modules are equal only
\* if their item lists have the same length and equal items at every
\* position, so the same items in another order, or another number of
\* times, make a different module.
C8_ItemsAreOrdered ==
    kind = "ModInner" =>
        \A m1 \in Nodes, m2 \in Nodes :
            ModInner_eq(m1, m2) =>
                /\ Len(m1.items) = Len(m2.items)
                /\ \A i \in 1..Len(m1.items) : Item_eq(m1.items[i], m2.items[i])

C8_Witness ==
    /\ kind = "ModInner"
    /\ regs["x"] # Empty /\ regs["y"] # Empty /\ regs["z"] # Empty
    /\ Len(regs["x"].items) = 2 /\ Len(regs["y"].items) = 2
    /\ regs["x"].items[1] = regs["y"].items[2]
    /\ regs["x"].items[2] = regs["y"].items[1]
    /\ ~Item_eq(regs["x"].items[1], regs["x"].items[2])
    /\ ~ModInner_eq(regs["x"], regs["y"])
    /\ regs["z"].items = <<regs["x"].items[1]>>
    /\ ~ModInner_eq(regs["z"], ModInner(<<>>, <<regs["x"].items[1], regs["x"].items[1]>>))

\* C9: ItemKind has exactly 16 variants, and the detail of every item is
\* one of them, carrying the fields of that variant and no others.
C9_ItemKindIsClosed ==
    /\ Cardinality(ItemKindTags) = 16
    /\ kind = "Item" =>
          \A n \in Nodes :
              /\ n.detail.tag \in ItemKindTags
              /\ DOMAIN n.detail = {"tag"} \cup ItemKindFields(n.detail.tag)

C9_Witness ==
    /\ kind = "Item"
    /\ regs["x"] # Empty /\ regs["y"] # Empty /\ regs["z"] # Empty
    /\ regs["x"].detail.tag = "ImplTrait"
    /\ regs["y"].detail.tag = "ExternCrate"
    /\ regs["z"].detail.tag = "Enum"
    /\ \A t \in ItemKindTags : \E i \in ItemInputs : i.detail.tag = t

====
